---- MODULE Spec2Model ----
(***************************************************************************)
(* Model of the credential / grade store of src/src/db.rs.                 *)
(*                                                                         *)
(* The store is the lazily initialised DATABASE (a Mutex<Vec<User>>), the  *)
(* backing file DATABASE_FILE and the policy file of access_control.  The  *)
(* public operations login, create_account, reset_password, enter_grade    *)
(* and show_grades run one after the other, each as one action (Spec).     *)
(* SpecThreads runs the same operations statement by statement for two     *)
(* callers that share the store and its Mutex.  Grades are f32 values in   *)
(* the source; here they are counted in tenths (4.5 is 45).                *)
(***************************************************************************)
EXTENDS Integers, Sequences, FiniteSets, TLC

VARIABLES
    running,    \* the process has not panicked
    db_init,    \* lazy_static DATABASE has been initialised
    data,       \* the Vec<User> inside DATABASE (meaningful once db_init)
    file,       \* DATABASE_FILE on disk
    policy,     \* grouping facts appended to access_control::POLICY
    session,    \* the identity the caller holds (Option<UserDTO>)
    out,        \* what the last operation did, in the order it did it
    lock,       \* the holder of the Mutex of DATABASE (two callers, below)
    who,        \* the identity each of the two callers holds
    pc,         \* the statement each of the two callers is at
    frame       \* the locals of each caller's operation

vars ==
    <<running, db_init, data, file, policy, session, out, lock, who, pc,
      frame>>

\* The variables of the two concurrent callers
callers == <<lock, who, pc, frame>>

----------------------------------------------------------------------------
(* Bounds *)

MaxUsers == 2       \* records in the store
MaxGrades == 2      \* grades in the store
MaxTyped == 2       \* lines typed at the grade prompt

----------------------------------------------------------------------------
(* Inputs *)

Emails == {"s@x.com", "t@x.com"}
Passwords == {"pw1", "pw2"}
Names == {"n"}
Salts == {"s1"}
GradeInputs == {-1, 0, 60, 61}
CodeMin == 100000
CodeMax == 999999
CodeSamples == {99999, 100000, 482913, 999999}
IoOutcomes == {"ok", "create_fails", "write_fails"}

\* The password of the super-user, which a user may have chosen too
AdminPassword == "pw1"

\* An input the operation did not ask for
Unasked == ""
NoCode == CodeMin - 1
Asked(asks, S) == IF asks THEN S ELSE {Unasked}

----------------------------------------------------------------------------
(* utils.rs: the prompts *)

\* ask_for_email(true), of login, takes the name of the super-user too;
\* ask_for_email(false) takes email addresses only.
ask_for_email(with_admin) == IF with_admin THEN Emails \cup {"admin"} ELSE Emails

ask_for_pw == Passwords

ask_for_name == Names

----------------------------------------------------------------------------
(* Option / Result *)

None == <<>>
Some(x) == <<x>>

----------------------------------------------------------------------------
(* hash.rs *)

\* The digest of a password under a salt: distinct (salt, password) pairs
\* give distinct digests.
digest(salt, pw) == <<salt, pw>>

padded_hash(pw, salt) == [salt |-> salt, digest |-> digest(salt, pw)]

verify(hash, pw) == hash.digest = digest(hash.salt, pw)

ADMIN_HASH == padded_hash(AdminPassword, "87QhHEdG3qxCvRi8AsnU+A")

----------------------------------------------------------------------------
(* Types *)

User(id, email, name, pw_hash, grades) ==
    [id |-> id, email |-> email, name |-> name, pw_hash |-> pw_hash,
     grades |-> grades]

UserDTO(id, email) == [id |-> id, email |-> email]

\* Uuid::new_v4().to_string(): the n-th identifier drawn.
Uuid(n) == "uuid-" \o ToString(n)

----------------------------------------------------------------------------
(* The backing file *)

MissingFile == [state |-> "missing", content |-> <<>>]
CorruptFile == [state |-> "corrupt", content |-> <<>>]
JsonFile(content) == [state |-> "json", content |-> content]

\* serde_json::to_writer of a Vec<User>: one array of field values per record
to_json(d) ==
    [i \in 1..Len(d) |->
        <<d[i].id, d[i].email, d[i].name, d[i].pw_hash, d[i].grades>>]

\* serde_json::from_reader into a Vec<User>
from_json(j) ==
    [i \in 1..Len(j) |-> User(j[i][1], j[i][2], j[i][3], j[i][4], j[i][5])]

read_database_from_file(f) ==
    IF f.state = "json" THEN Some(from_json(f.content)) ELSE None

\* unwrap_or that drops what was read
unwrap_or_default(r, default) == default

unwrap_or(r, default) == IF r = None THEN default ELSE r[1]

\* Dereferencing DATABASE: the first use reads the file as it is then.
DATABASE(init, d, f) ==
    IF init THEN d ELSE unwrap_or(read_database_from_file(f), <<>>)

\* save_database_to_file: File::create truncates the file, then the store is
\* locked (and initialised if this is its first use) and written.
save_database_to_file(init, d, f, io) ==
    LET stored == DATABASE(init, d, CorruptFile)
    IN  CASE io = "create_fails" ->
               [running |-> FALSE, db_init |-> init, data |-> d, file |-> f]
          [] io = "write_fails" ->
               [running |-> FALSE, db_init |-> TRUE, data |-> stored,
                file |-> CorruptFile]
          [] OTHER ->
               [running |-> TRUE, db_init |-> TRUE, data |-> stored,
                file |-> JsonFile(to_json(stored))]

SaveEvents(io) == IF io = "ok" THEN <<"save">> ELSE <<"save", "panic">>

----------------------------------------------------------------------------
(* access_control *)

TEACHER_ACC == "teacher_acc"
STUDENT_ACC == "student_acc"
ENTER_GRADE == "enter_grade"
SHOW_GRADES == "show_grades"

\* The answers the policy can give: a subject that is neither the super-user
\* nor grouped into a role matches no rule and is denied; for the others the
\* answer depends on the rules of the policy file.
auth(p, user, action) ==
    IF user.id = "admin" \/ \E i \in 1..Len(p) : p[i].id = user.id
    THEN BOOLEAN
    ELSE {FALSE}

----------------------------------------------------------------------------
(* The record of the last operation: the store it found (pre), the answer   *)
(* of the policy, the inputs it read, what it did in the order it did it,   *)
(* the lines it showed; pre_init, pre_file and pre_policy are the state of  *)
(* the store's initialisation, of the file and of the policy it found, io   *)
(* the outcome of its write of the file                                     *)

NoOut ==
    [op |-> "none", action |-> "none", auth |-> "none", pre |-> <<>>,
     pre_init |-> FALSE, pre_file |-> MissingFile, pre_policy |-> <<>>,
     email |-> Unasked, pw |-> Unasked, name |-> Unasked, code |-> NoCode,
     code_entered |-> NoCode, typed |-> <<>>, io |-> "none", events |-> <<>>,
     shown |-> <<>>]

Store == DATABASE(db_init, data, file)

\* The record of an operation that starts now.
Start(op) ==
    [NoOut EXCEPT !.op = op, !.pre = Store,
                  !.pre_init = db_init, !.pre_file = file,
                  !.pre_policy = policy]

Answer(allowed) == IF allowed THEN "granted" ELSE "denied"

----------------------------------------------------------------------------
(* login *)

\* login_loop without the password check
RECURSIVE login_loop_no_verify(_, _, _, _)
login_loop_no_verify(d, i, email, pw) ==
    IF i > Len(d) THEN None
    ELSE IF d[i].email = email
         THEN Some(UserDTO(d[i].id, d[i].email))
         ELSE login_loop_no_verify(d, i + 1, email, pw)

RECURSIVE login_loop(_, _, _, _)
login_loop(d, i, email, pw) ==
    IF i > Len(d) THEN None
    ELSE IF d[i].email = email /\ verify(d[i].pw_hash, pw)
         THEN Some(UserDTO(d[i].id, d[i].email))
         ELSE login_loop(d, i + 1, email, pw)

login(d, email, pw) ==
    IF email = "admin"
    THEN IF verify(ADMIN_HASH, pw)
         THEN Some(UserDTO("admin", "admin"))
         ELSE None
    ELSE login_loop(d, 1, email, pw)

\* The store is locked (and so initialised) only for another email than admin.
login_locks(email) == email # "admin"

Login(email, pw) ==
    /\ running
    /\ session' = login(Store, email, pw)
    /\ IF login_locks(email)
       THEN /\ db_init' = TRUE
            /\ data' = Store
            /\ out' = [Start("login") EXCEPT
                          !.email = email, !.pw = pw,
                          !.events = <<"ask_email", "ask_pw", "lock", "unlock">>]
       ELSE /\ UNCHANGED <<db_init, data>>
            /\ out' = [Start("login") EXCEPT
                          !.email = email, !.pw = pw,
                          !.events = <<"ask_email", "ask_pw">>]
    /\ UNCHANGED <<running, file, policy>>
    /\ UNCHANGED callers

----------------------------------------------------------------------------
(* create_account *)

\* new_user with the caller's id in place of the new identifier
new_user_caller_id(d, email, name, pw, salt) ==
    User(session[1].id, email, name, padded_hash(pw, salt), <<>>)

\* The record create_account pushes: a new identifier, the entered email and
\* name, the hash of the entered password, no grades.
new_user(d, email, name, pw, salt) ==
    User(Uuid(Len(d) + 1), email, name, padded_hash(pw, salt), <<>>)

\* push that puts the record in front
push_front(d, user) == <<user>> \o d

\* push that refuses an email a record already has
push_unique_email(d, user) ==
    IF \E i \in 1..Len(d) : d[i].email = user.email THEN d ELSE Append(d, user)

\* data.push(User {..})
push(d, user) == Append(d, user)

\* grouping_fact that names the caller
grouping_fact_of_caller(id) == [id |-> session[1].id, role |-> "teacher"]

\* The line appended to the policy file for a teacher account.
grouping_fact(id) == [id |-> id, role |-> "teacher"]

\* not_allowed that lets every answer pass
not_allowed_never(allowed) == FALSE

\* if !block_on(access_control::auth(user, ..)): the answer is a denial.
not_allowed(allowed) == ~allowed

CreateAccount(is_teacher_account, allowed, email, pw, name, salt, policy_ok, io) ==
    /\ running
    /\ session # None
    /\ Len(Store) < MaxUsers
    /\ allowed \in auth(policy, session[1],
                        IF is_teacher_account THEN TEACHER_ACC ELSE STUDENT_ACC)
    /\ LET o == [Start("create_account") EXCEPT
                     !.action = IF is_teacher_account THEN TEACHER_ACC
                                ELSE STUDENT_ACC,
                     !.auth = Answer(allowed), !.email = email, !.pw = pw,
                     !.name = name]
           added == new_user(Store, email, name, pw, salt)
           pushed == push(Store, added)
           saved == save_database_to_file(TRUE, pushed, file, io)
           asked == <<"auth", "ask_email", "ask_pw", "ask_name", "uuid",
                      "lock", "push">>
       IN  IF not_allowed(allowed)
           THEN /\ out' = [o EXCEPT !.events = <<"auth", "print_not_allowed">>]
                /\ UNCHANGED <<running, db_init, data, file, policy>>
           ELSE IF is_teacher_account /\ ~policy_ok
           THEN \* OpenOptions::open(POLICY).unwrap() panics
                /\ out' = [o EXCEPT !.events = asked \o <<"policy_open", "panic">>]
                /\ running' = FALSE
                /\ db_init' = TRUE
                /\ data' = pushed
                /\ UNCHANGED <<file, policy>>
           ELSE /\ out' = [o EXCEPT !.io = io, !.events =
                              asked
                              \o (IF is_teacher_account
                                  THEN <<"policy_open", "policy_append">>
                                  ELSE <<>>)
                              \o <<"log_info", "unlock">>
                              \o SaveEvents(io)]
                /\ policy' = IF is_teacher_account
                             THEN Append(policy, grouping_fact(added.id))
                             ELSE policy
                /\ running' = saved.running
                /\ db_init' = saved.db_init
                /\ data' = saved.data
                /\ file' = saved.file
    /\ UNCHANGED session
    /\ UNCHANGED callers

----------------------------------------------------------------------------
(* reset_password *)

\* The range 100000..999999 of gen_range and of the token prompt.
Codes == {c \in CodeSamples : CodeMin <= c /\ c < CodeMax}

\* The code gen_range draws (the operation only compares it with the code
\* entered, which is any of Codes).
IssuedCodes == Codes \cap {482913}

\* reset_rejects without the check of the super-user
reset_rejects_nobody(user) == FALSE

\* code_matches that accepts any code
code_matches_any(code, code_entered) == TRUE

\* reset_password_loop that finds the record and leaves its hash as it was
RECURSIVE reset_password_loop_no_set(_, _, _, _)
reset_password_loop_no_set(d, i, email, hash) ==
    IF i > Len(d) THEN [data |-> d, found |-> FALSE]
    ELSE IF d[i].email = email
         THEN [data |-> d, found |-> TRUE]
         ELSE reset_password_loop_no_set(d, i + 1, email, hash)

\* reset_password_loop that goes on to the last record with the email
RECURSIVE reset_password_loop_last(_, _, _, _)
reset_password_loop_last(d, i, email, hash) ==
    IF i > Len(d) THEN [data |-> d, found |-> FALSE]
    ELSE LET rest == reset_password_loop_last(d, i + 1, email, hash)
         IN  IF rest.found THEN rest
             ELSE IF d[i].email = email
                  THEN [data |-> [d EXCEPT ![i].pw_hash = hash],
                        found |-> TRUE]
                  ELSE rest

\* The super-user is turned away before anything else.
reset_rejects(user) == user.id = "admin"

\* code == *code_entered
code_matches(code, code_entered) == code = code_entered

\* The loop over the store: the first record with the email gets the hash.
RECURSIVE reset_password_loop(_, _, _, _)
reset_password_loop(d, i, email, hash) ==
    IF i > Len(d) THEN [data |-> d, found |-> FALSE]
    ELSE IF d[i].email = email
         THEN [data |-> [d EXCEPT ![i].pw_hash = hash], found |-> TRUE]
         ELSE reset_password_loop(d, i + 1, email, hash)

ResetPassword(code, code_entered, pw, salt, io) ==
    /\ running
    /\ session # None
    /\ LET user == session[1]
           o == [Start("reset_password") EXCEPT
                     !.code = code, !.code_entered = code_entered, !.pw = pw]
           sent == <<"print_token_sent", "gen_code", "send_password_mail",
                     "log_info", "ask_code">>
           loop == reset_password_loop(Store, 1, user.email,
                                       padded_hash(pw, salt))
           after == IF code_matches(code, code_entered)
                    THEN save_database_to_file(TRUE, loop.data, file, io)
                    ELSE save_database_to_file(db_init, data, file, io)
       IN  IF reset_rejects(user)
           THEN /\ out' = [o EXCEPT !.events = <<"print_cannot">>]
                /\ UNCHANGED <<running, db_init, data, file>>
           ELSE IF code_matches(code, code_entered) /\ loop.found
           THEN \* return inside the loop
                /\ out' = [o EXCEPT !.events =
                              sent \o <<"ask_pw", "lock", "set_pw_hash",
                                        "unlock">>]
                /\ db_init' = TRUE
                /\ data' = loop.data
                /\ UNCHANGED <<running, file>>
           ELSE /\ out' = [o EXCEPT !.io = io, !.events =
                              sent
                              \o (IF code_matches(code, code_entered)
                                  THEN <<"ask_pw", "lock", "log_info", "unlock">>
                                  ELSE <<"print_wrong_code", "log_warn">>)
                              \o SaveEvents(io)]
                /\ running' = after.running
                /\ db_init' = after.db_init
                /\ data' = after.data
                /\ file' = after.file
    /\ UNCHANGED <<policy, session>>
    /\ UNCHANGED callers

----------------------------------------------------------------------------
(* enter_grade *)

GradeMin == 0
GradeMax == 60

\* grade_test without the upper limit
grade_test_no_max(x) == x >= GradeMin

\* The test of the grade prompt: *x >= 0.0 && *x <= 6.0
grade_test(x) == x >= GradeMin /\ x <= GradeMax

\* input().add_test(..).get(): the prompt repeats until a line passes the
\* test; the result is the position of the first line that passes (0: none).
RECURSIVE get(_, _)
get(typed, i) ==
    IF i > Len(typed) THEN 0
    ELSE IF grade_test(typed[i]) THEN i ELSE get(typed, i + 1)

\* enter_grade_loop that replaces the grades of the record by the new one
RECURSIVE enter_grade_loop_replace(_, _, _, _)
enter_grade_loop_replace(d, i, email, grade) ==
    IF i > Len(d) THEN [data |-> d, found |-> FALSE]
    ELSE IF d[i].email = email
         THEN [data |-> [d EXCEPT ![i].grades = <<grade>>], found |-> TRUE]
         ELSE enter_grade_loop_replace(d, i + 1, email, grade)

\* The loop over the store: the first record with the email gets the grade.
RECURSIVE enter_grade_loop(_, _, _, _)
enter_grade_loop(d, i, email, grade) ==
    IF i > Len(d) THEN [data |-> d, found |-> FALSE]
    ELSE IF d[i].email = email
         THEN [data |-> [d EXCEPT ![i].grades = Append(@, grade)],
               found |-> TRUE]
         ELSE enter_grade_loop(d, i + 1, email, grade)

\* The number of grades the store holds.
RECURSIVE TotalGrades(_)
TotalGrades(d) ==
    IF d = <<>> THEN 0 ELSE Len(d[1].grades) + TotalGrades(Tail(d))

TypedGrades == UNION {[1..n -> GradeInputs] : n \in 1..MaxTyped}

EnterGrade(allowed, email, typed, io) ==
    /\ running
    /\ session # None
    /\ allowed \in auth(policy, session[1], ENTER_GRADE)
    /\ LET o == [Start("enter_grade") EXCEPT
                     !.action = ENTER_GRADE, !.auth = Answer(allowed),
                     !.email = email, !.typed = typed]
       IN  IF not_allowed(allowed)
           THEN /\ out' = [o EXCEPT !.events = <<"auth", "print_not_allowed">>]
                /\ UNCHANGED <<running, db_init, data, file>>
           ELSE \* every line typed is read: the last one is the first to pass
                /\ get(typed, 1) = Len(typed)
                /\ LET grade == typed[get(typed, 1)]
                       asked == <<"auth", "ask_email">>
                                   \o [i \in 1..get(typed, 1) |-> "ask_grade"]
                                   \o <<"lock">>
                       loop == enter_grade_loop(Store, 1, email, grade)
                       saved == save_database_to_file(TRUE, loop.data, file, io)
                   IN  IF loop.found
                       THEN \* return inside the loop
                            /\ TotalGrades(loop.data) <= MaxGrades
                            /\ out' = [o EXCEPT !.events =
                                          asked \o <<"push_grade", "unlock">>]
                            /\ db_init' = TRUE
                            /\ data' = loop.data
                            /\ UNCHANGED <<running, file>>
                       ELSE /\ out' = [o EXCEPT !.io = io, !.events =
                                          asked
                                          \o <<"print_not_found", "log_warn",
                                               "unlock">>
                                          \o SaveEvents(io)]
                            /\ running' = saved.running
                            /\ db_init' = saved.db_init
                            /\ data' = saved.data
                            /\ file' = saved.file
    /\ UNCHANGED <<policy, session>>
    /\ UNCHANGED callers

----------------------------------------------------------------------------
(* show_grades *)

RECURSIVE sum(_)
sum(grades) ==
    IF grades = <<>> THEN 0 ELSE grades[1] + sum(Tail(grades))

\* One line of the output: the email, the grades and their mean (the sum
\* over the number of grades); rec is the position of the record shown.
line(d, i) ==
    [rec |-> i, email |-> d[i].email, grades |-> d[i].grades,
     mean |-> <<sum(d[i].grades), Len(d[i].grades)>>]

\* shows that compares emails where the source compares ids
shows_by_email(curr_user, user, is_teacher) ==
    curr_user.grades # <<>> /\ (is_teacher \/ user.email = curr_user.email)

\* The condition under which a record's grades are shown.
shows(curr_user, user, is_teacher) ==
    curr_user.grades # <<>> /\ (is_teacher \/ user.id = curr_user.id)

RECURSIVE show_grades_loop(_, _, _, _)
show_grades_loop(d, i, user, is_teacher) ==
    IF i > Len(d) THEN <<>>
    ELSE (IF shows(d[i], user, is_teacher) THEN <<line(d, i)>> ELSE <<>>)
         \o show_grades_loop(d, i + 1, user, is_teacher)

ShowGrades(allowed) ==
    /\ running
    /\ session # None
    /\ allowed \in auth(policy, session[1], SHOW_GRADES)
    /\ out' = [Start("show_grades") EXCEPT
                  !.action = SHOW_GRADES, !.auth = Answer(allowed),
                  !.shown = show_grades_loop(Store, 1, session[1], allowed),
                  !.events = <<"auth", "lock", "print_res", "log_info",
                               "unlock">>]
    /\ db_init' = TRUE
    /\ data' = Store
    /\ UNCHANGED <<running, file, policy, session>>
    /\ UNCHANGED callers

----------------------------------------------------------------------------
(* The program *)

SampleDb ==
    <<User(Uuid(1), "s@x.com", "n", padded_hash("pw1", "s1"), <<>>)>>

InitFiles == {MissingFile, CorruptFile, JsonFile(to_json(SampleDb))}

\* The two callers of SpecThreads, and the Mutex when nobody holds it
Threads == {"a", "b"}
Free == "free"

\* A caller that is in no operation.  window is set from the operation's
\* change of the store to the end of its write of the file, touched when
\* another caller changed the store or the file in between.
NoFrame ==
    [op |-> "none", auth |-> "none", is_teacher |-> FALSE,
     email |-> Unasked, pw |-> Unasked, grade |-> GradeMin - 1,
     window |-> FALSE, touched |-> FALSE]

Init ==
    /\ running = TRUE
    /\ db_init = FALSE
    /\ data = <<>>
    /\ file \in InitFiles
    /\ policy = <<>>
    /\ session = None
    /\ out = NoOut
    /\ lock = Free
    /\ who = [t \in Threads |-> None]
    /\ pc = [t \in Threads |-> "idle"]
    /\ frame = [t \in Threads |-> NoFrame]

\* The inputs an operation reads depend on the path it takes.
ResetAsks == session # None /\ ~reset_rejects(session[1])

\* reset_password comes to save_database_to_file: the code does not match,
\* or no record has the caller's email.
ResetSaves(code, code_entered) ==
    /\ ResetAsks
    /\ \/ ~code_matches(code, code_entered)
       \/ ~reset_password_loop(Store, 1, session[1].email, ADMIN_HASH).found

Next ==
    \/ \E email \in ask_for_email(TRUE), pw \in Passwords :
           Login(email, pw)
    \/ \E is_teacher_account \in BOOLEAN, allowed \in BOOLEAN :
       \E email \in Asked(allowed, ask_for_email(FALSE)),
          pw \in Asked(allowed, ask_for_pw),
          name \in Asked(allowed, ask_for_name), salt \in Asked(allowed, Salts),
          policy_ok \in IF allowed /\ is_teacher_account THEN BOOLEAN ELSE {TRUE},
          io \in IF allowed THEN IoOutcomes ELSE {"ok"} :
           CreateAccount(is_teacher_account, allowed, email, pw, name, salt,
                         policy_ok, io)
    \/ \E code \in IF ResetAsks THEN IssuedCodes ELSE {NoCode} :
       \E code_entered \in IF ResetAsks THEN Codes ELSE {NoCode} :
       \E pw \in Asked(ResetAsks /\ code_matches(code, code_entered), ask_for_pw),
          salt \in Asked(ResetAsks /\ code_matches(code, code_entered), Salts),
          io \in IF ResetSaves(code, code_entered) THEN IoOutcomes ELSE {"ok"} :
           ResetPassword(code, code_entered, pw, salt, io)
    \/ \E allowed \in BOOLEAN :
       \E email \in Asked(allowed, ask_for_email(FALSE)),
          typed \in IF allowed THEN TypedGrades ELSE {<<>>} :
       \E io \in IF allowed /\ ~enter_grade_loop(Store, 1, email, 0).found
                 THEN IoOutcomes ELSE {"ok"} :
           EnterGrade(allowed, email, typed, io)
    \/ \E allowed \in BOOLEAN : ShowGrades(allowed)

Spec == Init /\ [][Next]_vars

----------------------------------------------------------------------------
(* Two callers.  Each operation is taken statement by statement: the call   *)
(* with its arguments, the authorization check with the prompts that follow *)
(* it, DATABASE.lock(), the loop or the push under the lock, the release of *)
(* the guard, and the three steps of save_database_to_file (File::create,   *)
(* DATABASE.lock(), to_writer with the release of the guard).  The file     *)
(* operations succeed here; their failures are in Spec.                     *)

\* What the two callers type: one new password, one email for a new account,
\* one grade; the values that tell the paths apart are all there.
TypedPasswords == {"pw2"}
TypedNewEmails == {"t@x.com"}
TypedGrade == {GradeMax}

\* The variables of Spec that the callers leave alone
sequential == <<running, session, out>>

Goto(t, label) == pc' = [pc EXCEPT ![t] = label]

\* A change of the store or of the file by t, seen by the caller whose
\* window is open
Disturbed(t, f) ==
    [u \in Threads |->
        IF u # t /\ f[u].window THEN [f[u] EXCEPT !.touched = TRUE] ELSE f[u]]

\* return: the frame is gone
Returned(t, f) == [f EXCEPT ![t] = NoFrame]

\* DATABASE.lock().unwrap(): waits for the Mutex; the first use of DATABASE
\* reads the file.
Lock(t) ==
    /\ lock = Free
    /\ lock' = t
    /\ db_init' = TRUE
    /\ data' = Store

(* login *)

call_login(t, email, pw) ==
    /\ pc[t] = "idle"
    /\ IF login_locks(email)
       THEN /\ frame' = [frame EXCEPT ![t] =
                            [NoFrame EXCEPT !.op = "login", !.email = email,
                                            !.pw = pw]]
            /\ Goto(t, "login_lock")
            /\ UNCHANGED who
       ELSE \* the super-user: verify(ADMIN_HASH, &pw), no store
            /\ who' = [who EXCEPT ![t] = login(<<>>, email, pw)]
            /\ UNCHANGED <<pc, frame>>
    /\ UNCHANGED <<lock, db_init, data, file, policy>>
    /\ UNCHANGED sequential

login_lock(t) ==
    /\ pc[t] = "login_lock"
    /\ Lock(t)
    /\ Goto(t, "login_loop")
    /\ UNCHANGED <<frame, file, policy>>
    /\ UNCHANGED <<sequential, who>>

\* The loop and the return, which drops the guard.
login_return(t) ==
    /\ pc[t] = "login_loop"
    /\ who' = [who EXCEPT ![t] =
                  login_loop(data, 1, frame[t].email, frame[t].pw)]
    /\ lock' = Free
    /\ Goto(t, "idle")
    /\ frame' = Returned(t, frame)
    /\ UNCHANGED <<db_init, data, file, policy>>
    /\ UNCHANGED sequential

(* create_account *)

\* The callers that will push a record
Pushing == {u \in Threads : pc[u] \in {"ca_auth", "ca_lock", "ca_push"}}

call_create_account(t, is_teacher_account) ==
    /\ pc[t] = "idle"
    /\ who[t] # None
    /\ Len(Store) + Cardinality(Pushing) < MaxUsers
    /\ frame' = [frame EXCEPT ![t] =
                    [NoFrame EXCEPT !.op = "create_account",
                                    !.is_teacher = is_teacher_account]]
    /\ Goto(t, "ca_auth")
    /\ UNCHANGED <<lock, db_init, data, file, policy>>
    /\ UNCHANGED <<sequential, who>>

\* The authorization check, and the prompts when it grants.
ca_auth(t, allowed, email, pw) ==
    /\ pc[t] = "ca_auth"
    /\ allowed \in auth(policy, who[t][1],
                        IF frame[t].is_teacher THEN TEACHER_ACC
                        ELSE STUDENT_ACC)
    /\ IF not_allowed(allowed)
       THEN /\ frame' = Returned(t, frame)
            /\ Goto(t, "idle")
       ELSE /\ frame' = [frame EXCEPT ![t].auth = Answer(allowed),
                                      ![t].email = email, ![t].pw = pw]
            /\ Goto(t, "ca_lock")
    /\ UNCHANGED <<lock, db_init, data, file, policy>>
    /\ UNCHANGED <<sequential, who>>

ca_lock(t) ==
    /\ pc[t] = "ca_lock"
    /\ Lock(t)
    /\ Goto(t, "ca_push")
    /\ UNCHANGED <<frame, file, policy>>
    /\ UNCHANGED <<sequential, who>>

\* data.push and, for a teacher account, the line added to the policy file.
ca_push(t, name, salt) ==
    /\ pc[t] = "ca_push"
    /\ LET added == new_user(data, frame[t].email, name, frame[t].pw, salt)
       IN  /\ data' = push(data, added)
           /\ policy' = IF frame[t].is_teacher
                        THEN Append(policy, grouping_fact(added.id))
                        ELSE policy
    /\ frame' = Disturbed(t, [frame EXCEPT ![t].window = TRUE])
    /\ Goto(t, "ca_drop")
    /\ UNCHANGED <<lock, db_init, file>>
    /\ UNCHANGED <<sequential, who>>

\* ca_drop that keeps the guard
ca_drop_kept(t) ==
    /\ pc[t] = "ca_drop"
    /\ Goto(t, "save_create")
    /\ UNCHANGED <<lock, frame, db_init, data, file, policy>>
    /\ UNCHANGED <<sequential, who>>

\* std::mem::drop(data)
ca_drop(t) ==
    /\ pc[t] = "ca_drop"
    /\ lock' = Free
    /\ Goto(t, "save_create")
    /\ UNCHANGED <<frame, db_init, data, file, policy>>
    /\ UNCHANGED <<sequential, who>>

(* save_database_to_file *)

\* File::create truncates the file: what is there does not parse.
save_create(t) ==
    /\ pc[t] = "save_create"
    /\ file' = CorruptFile
    /\ frame' = Disturbed(t, frame)
    /\ Goto(t, "save_lock")
    /\ UNCHANGED <<lock, db_init, data, policy>>
    /\ UNCHANGED <<sequential, who>>

save_lock(t) ==
    /\ pc[t] = "save_lock"
    /\ Lock(t)
    /\ Goto(t, "save_write")
    /\ UNCHANGED <<frame, file, policy>>
    /\ UNCHANGED <<sequential, who>>

\* to_writer, the end of the statement, which drops the guard, and the
\* return of the operation that called save_database_to_file.
save_write(t) ==
    /\ pc[t] = "save_write"
    /\ file' = JsonFile(to_json(data))
    /\ lock' = Free
    /\ frame' = Returned(t, Disturbed(t, frame))
    /\ Goto(t, "idle")
    /\ UNCHANGED <<db_init, data, policy>>
    /\ UNCHANGED <<sequential, who>>

(* reset_password *)

call_reset_password(t) ==
    /\ pc[t] = "idle"
    /\ who[t] # None
    /\ IF reset_rejects(who[t][1])
       THEN UNCHANGED <<pc, frame>>
       ELSE /\ frame' = [frame EXCEPT ![t] =
                            [NoFrame EXCEPT !.op = "reset_password"]]
            /\ Goto(t, "rp_code")
    /\ UNCHANGED <<lock, db_init, data, file, policy>>
    /\ UNCHANGED <<sequential, who>>

\* The code generated, the code entered and, when they match, the password.
rp_code(t, code, code_entered, pw) ==
    /\ pc[t] = "rp_code"
    /\ IF code_matches(code, code_entered)
       THEN /\ frame' = [frame EXCEPT ![t].pw = pw]
            /\ Goto(t, "rp_lock")
       ELSE /\ UNCHANGED frame
            /\ Goto(t, "save_create")
    /\ UNCHANGED <<lock, db_init, data, file, policy>>
    /\ UNCHANGED <<sequential, who>>

rp_lock(t) ==
    /\ pc[t] = "rp_lock"
    /\ Lock(t)
    /\ Goto(t, "rp_loop")
    /\ UNCHANGED <<frame, file, policy>>
    /\ UNCHANGED <<sequential, who>>

\* The loop: return inside it when the record is found (the guard drops);
\* otherwise the block ends (the guard drops) and the save follows.
rp_loop(t, salt) ==
    /\ pc[t] = "rp_loop"
    /\ LET loop == reset_password_loop(data, 1, who[t][1].email,
                                       padded_hash(frame[t].pw, salt))
       IN  IF loop.found
           THEN /\ data' = loop.data
                /\ frame' = Returned(t, Disturbed(t, frame))
                /\ Goto(t, "idle")
           ELSE /\ UNCHANGED <<data, frame>>
                /\ Goto(t, "save_create")
    /\ lock' = Free
    /\ UNCHANGED <<db_init, file, policy>>
    /\ UNCHANGED <<sequential, who>>

(* enter_grade *)

\* The callers that will push a grade
Grading == {u \in Threads : pc[u] \in {"eg_auth", "eg_lock", "eg_loop"}}

call_enter_grade(t) ==
    /\ pc[t] = "idle"
    /\ who[t] # None
    /\ TotalGrades(Store) + Cardinality(Grading) < MaxGrades
    /\ frame' = [frame EXCEPT ![t] =
                    [NoFrame EXCEPT !.op = "enter_grade"]]
    /\ Goto(t, "eg_auth")
    /\ UNCHANGED <<lock, db_init, data, file, policy>>
    /\ UNCHANGED <<sequential, who>>

\* eg_auth that goes on whatever the answer
eg_auth_unchecked(t, allowed, email, grade) ==
    /\ pc[t] = "eg_auth"
    /\ frame' = [frame EXCEPT ![t].email = email, ![t].grade = grade]
    /\ Goto(t, "eg_lock")
    /\ UNCHANGED <<lock, db_init, data, file, policy>>
    /\ UNCHANGED <<sequential, who>>

\* The authorization check, and the prompts when it grants.
eg_auth(t, allowed, email, grade) ==
    /\ pc[t] = "eg_auth"
    /\ allowed \in auth(policy, who[t][1], ENTER_GRADE)
    /\ IF not_allowed(allowed)
       THEN /\ frame' = Returned(t, frame)
            /\ Goto(t, "idle")
       ELSE /\ grade_test(grade)
            /\ frame' = [frame EXCEPT ![t].auth = Answer(allowed),
                                      ![t].email = email, ![t].grade = grade]
            /\ Goto(t, "eg_lock")
    /\ UNCHANGED <<lock, db_init, data, file, policy>>
    /\ UNCHANGED <<sequential, who>>

eg_lock(t) ==
    /\ pc[t] = "eg_lock"
    /\ Lock(t)
    /\ Goto(t, "eg_loop")
    /\ UNCHANGED <<frame, file, policy>>
    /\ UNCHANGED <<sequential, who>>

\* The loop: return inside it when the record is found (the guard drops);
\* otherwise the messages, std::mem::drop(data) and the save.
eg_loop(t) ==
    /\ pc[t] = "eg_loop"
    /\ LET loop == enter_grade_loop(data, 1, frame[t].email, frame[t].grade)
       IN  IF loop.found
           THEN /\ data' = loop.data
                /\ frame' = Returned(t, Disturbed(t, frame))
                /\ Goto(t, "idle")
           ELSE /\ UNCHANGED <<data, frame>>
                /\ Goto(t, "save_create")
    /\ lock' = Free
    /\ UNCHANGED <<db_init, file, policy>>
    /\ UNCHANGED <<sequential, who>>

(* show_grades *)

call_show_grades(t) ==
    /\ pc[t] = "idle"
    /\ who[t] # None
    /\ frame' = [frame EXCEPT ![t] =
                    [NoFrame EXCEPT !.op = "show_grades"]]
    /\ Goto(t, "sg_auth")
    /\ UNCHANGED <<lock, db_init, data, file, policy>>
    /\ UNCHANGED <<sequential, who>>

\* The authorization check: its answer is the scope, not a refusal.
sg_auth(t, allowed) ==
    /\ pc[t] = "sg_auth"
    /\ allowed \in auth(policy, who[t][1], SHOW_GRADES)
    /\ frame' = [frame EXCEPT ![t].auth = Answer(allowed)]
    /\ Goto(t, "sg_lock")
    /\ UNCHANGED <<lock, db_init, data, file, policy>>
    /\ UNCHANGED <<sequential, who>>

sg_lock(t) ==
    /\ pc[t] = "sg_lock"
    /\ Lock(t)
    /\ Goto(t, "sg_loop")
    /\ UNCHANGED <<frame, file, policy>>
    /\ UNCHANGED <<sequential, who>>

\* The loop, the output and the return, which drops the guard.
sg_return(t) ==
    /\ pc[t] = "sg_loop"
    /\ lock' = Free
    /\ frame' = Returned(t, frame)
    /\ Goto(t, "idle")
    /\ UNCHANGED <<db_init, data, file, policy>>
    /\ UNCHANGED <<sequential, who>>

NextThreads ==
    \E t \in Threads :
        \/ \E email \in ask_for_email(TRUE), pw \in ask_for_pw :
               call_login(t, email, pw)
        \/ login_lock(t)
        \/ login_return(t)
        \/ \E is_teacher_account \in BOOLEAN :
               call_create_account(t, is_teacher_account)
        \/ \E allowed \in BOOLEAN :
           \E email \in Asked(allowed, TypedNewEmails),
              pw \in Asked(allowed, TypedPasswords) :
               ca_auth(t, allowed, email, pw)
        \/ ca_lock(t)
        \/ \E name \in ask_for_name, salt \in Salts : ca_push(t, name, salt)
        \/ ca_drop(t)
        \/ save_create(t)
        \/ save_lock(t)
        \/ save_write(t)
        \/ call_reset_password(t)
        \/ \E code \in IssuedCodes, code_entered \in Codes :
           \E pw \in Asked(code_matches(code, code_entered), TypedPasswords) :
               rp_code(t, code, code_entered, pw)
        \/ rp_lock(t)
        \/ \E salt \in Salts : rp_loop(t, salt)
        \/ call_enter_grade(t)
        \/ \E allowed \in BOOLEAN :
           \E email \in Asked(allowed, ask_for_email(FALSE)),
              grade \in IF allowed THEN TypedGrade ELSE {GradeMin - 1} :
               eg_auth(t, allowed, email, grade)
        \/ eg_lock(t)
        \/ eg_loop(t)
        \/ call_show_grades(t)
        \/ \E allowed \in BOOLEAN : sg_auth(t, allowed)
        \/ sg_lock(t)
        \/ sg_return(t)

SpecThreads == Init /\ [][NextThreads]_vars

----------------------------------------------------------------------------
(* Properties.  Each is stated on the record of the last operation: the      *)
(* store it found (out.pre), the inputs it read and the events it produced,  *)
(* against the store and the file it left.                                   *)

In(ev, events) == \E i \in DOMAIN events : events[i] = ev
Count(ev, events) == Cardinality({i \in DOMAIN events : events[i] = ev})

OnDisk == unwrap_or(read_database_from_file(file), <<>>)
Admin == UserDTO("admin", "admin")
ByAdmin == session # None /\ session[1].id = "admin"
ByUser == session # None /\ session[1].id # "admin"

\* C1: after an operation that changed the in-memory collection returns
\* (create_account pushed a record, enter_grade pushed a grade, reset_password
\* set a hash), the backing file holds the in-memory collection.
C1_DiskEqualsMemory ==
    ( /\ running
      /\ \/ out.op = "create_account" /\ In("push", out.events)
         \/ out.op = "enter_grade" /\ In("push_grade", out.events)
         \/ out.op = "reset_password" /\ In("set_pw_hash", out.events) )
    => read_database_from_file(file) = Some(Store)

\* The password p authenticates the caller in the store d.
Authenticates(d, p) == login(d, session[1].email, p) = session

\* C2 (as claimed): when a caller other than the super-user enters the issued
\* code, afterwards a login with the caller's email and the old password
\* returns no identity and one with the new password returns the caller's
\* identity, whatever the store holds.  (Stated for a new password other
\* than the old one; with the same password the old one trivially still
\* logs in.)
C2_ResetInstalls ==
    (out.op = "reset_password" /\ ByUser /\ out.code = out.code_entered)
    => \A old \in Passwords \ {out.pw} :
           Authenticates(out.pre, old)
           => /\ login(Store, session[1].email, old) = None
              /\ login(Store, session[1].email, out.pw) = session

\* Exactly one record of d has the caller's email.
EmailIsUnique(d) ==
    Cardinality({i \in 1..Len(d) : d[i].email = session[1].email}) = 1

\* C2 (amended): the same, when the caller's record is the only record with
\* the caller's email and the new password differs from the old one.
C2_ResetInstallsUnique ==
    (out.op = "reset_password" /\ ByUser /\ out.code = out.code_entered)
    => \A old \in Passwords \ {out.pw} :
           (Authenticates(out.pre, old) /\ EmailIsUnique(out.pre))
           => /\ login(Store, session[1].email, old) = None
              /\ login(Store, session[1].email, out.pw) = session

C2_Witness ==
    /\ out.op = "reset_password"
    /\ ByUser
    /\ out.code = out.code_entered
    /\ In("set_pw_hash", out.events)
    /\ EmailIsUnique(out.pre)
    /\ \E old \in Passwords \ {out.pw} :
          /\ Authenticates(out.pre, old)
          /\ ~Authenticates(Store, old)
          /\ Authenticates(Store, out.pw)

\* C3: when the code entered differs from the code issued, the code is asked
\* once, no password is asked, no record changes and a login with the old
\* password still succeeds.
C3_MismatchAborts ==
    (out.op = "reset_password" /\ ByUser /\ out.code # out.code_entered)
    => /\ Count("ask_code", out.events) = 1
       /\ ~In("ask_pw", out.events)
       /\ ~In("set_pw_hash", out.events)
       /\ In("print_wrong_code", out.events)
       /\ Store = out.pre
       /\ \A old \in Passwords :
              Authenticates(out.pre, old) => Authenticates(Store, old)

C3_Witness ==
    /\ out.op = "reset_password"
    /\ ByUser
    /\ out.code # out.code_entered
    /\ In("print_wrong_code", out.events)
    /\ \E old \in Passwords : Authenticates(Store, old)

\* C4: reset_password calls save_database_to_file if and only if the code
\* matched and a record's hash was replaced.
C4_SavesIffInstalled ==
    out.op = "reset_password"
    => (In("save", out.events)
        <=> (out.code = out.code_entered /\ In("set_pw_hash", out.events)))

\* C5: when an authorized caller enters a grade for an email no record has,
\* no record changes, "not found" is printed and the file is not written.
C5_NotFoundWritesNothing ==
    ( /\ out.op = "enter_grade"
      /\ out.auth = "granted"
      /\ \A i \in 1..Len(out.pre) : out.pre[i].email # out.email )
    => /\ Store = out.pre
       /\ In("print_not_found", out.events)
       /\ ~In("save", out.events)

InRange(g) == 0 <= g /\ g <= 60

GradesInRange(d) ==
    \A i \in 1..Len(d) : \A k \in 1..Len(d[i].grades) : InRange(d[i].grades[k])

\* C6: the grade prompt takes a line if and only if it is within 0.0 .. 6.0
\* (here 0 .. 60), the grade pushed is the line it took, and every grade in
\* memory and in the file is within that range.
C6_GradeRange ==
    /\ GradesInRange(Store)
    /\ GradesInRange(OnDisk)
    /\ (out.op = "enter_grade" /\ out.auth = "granted")
       => /\ \A i \in 1..Len(out.typed) :
                 (i = Len(out.typed)) <=> InRange(out.typed[i])
          /\ Count("ask_grade", out.events) = Len(out.typed)
          /\ In("push_grade", out.events)
             => \E i \in 1..Len(Store) :
                    Store[i].grades =
                        Append(out.pre[i].grades, out.typed[Len(out.typed)])

C6_Witness ==
    /\ out.op = "enter_grade"
    /\ Len(out.typed) = 2
    /\ ~InRange(out.typed[1])
    /\ In("push_grade", out.events)
    /\ \E i \in 1..Len(Store) :
          Store[i].grades = Append(out.pre[i].grades, out.typed[2])

\* C7: show_grades shows, when the policy denies show-all-grades, exactly the
\* caller's own record if it has grades and no record of another identity,
\* and when the policy grants it, every record that has grades.
C7_ShowGradesScope ==
    (out.op = "show_grades" /\ session # None)
    => LET d == out.pre
           user == session[1]
           withGrades == {i \in 1..Len(d) : d[i].grades # <<>>}
           recs == {out.shown[k].rec : k \in DOMAIN out.shown}
       IN  /\ Cardinality(recs) = Len(out.shown)
           /\ \A k \in DOMAIN out.shown :
                  /\ out.shown[k].email = d[out.shown[k].rec].email
                  /\ out.shown[k].grades = d[out.shown[k].rec].grades
           /\ out.auth = "denied"
              => recs = {i \in withGrades : d[i].id = user.id}
           /\ out.auth = "granted" => recs = withGrades

C7_Witness ==
    /\ out.op = "show_grades"
    /\ out.auth = "denied"
    /\ Len(out.shown) = 1
    /\ \E i \in 1..Len(Store) :
          Store[i].id # session[1].id /\ Store[i].grades # <<>>

C9_AdminResetRejected ==
    (out.op = "reset_password" /\ ByAdmin)
    => /\ out.events = <<"print_cannot">>
       /\ Store = out.pre
       /\ running

C9_Witness ==
    /\ out.op = "reset_password"
    /\ ByAdmin
    /\ out.events = <<"print_cannot">>
    /\ Len(Store) > 0

\* The records of d that the email and the password fit.
Fits(d, email, pw) ==
    {i \in 1..Len(d) : d[i].email = email /\ verify(d[i].pw_hash, pw)}

\* C10: login returns an identity if and only if the email is "admin" and the
\* password fits the constant hash (the store is not touched), or the email
\* is another one and the password fits a record with that email, whose id
\* and email are returned; it changes no record.
C10_Login ==
    out.op = "login"
    => /\ session # None
          <=> \/ out.email = "admin" /\ verify(ADMIN_HASH, out.pw)
              \/ out.email # "admin" /\ Fits(out.pre, out.email, out.pw) # {}
       /\ (out.email = "admin" /\ session # None) => session = Some(Admin)
       /\ (out.email # "admin" /\ session # None)
          => \E i \in Fits(out.pre, out.email, out.pw) :
                 session = Some(UserDTO(out.pre[i].id, out.pre[i].email))
       /\ out.email = "admin" => ~In("lock", out.events)
       /\ ~In("save", out.events)
       /\ Store = out.pre

C10_Witness ==
    /\ out.op = "login"
    /\ ByUser
    /\ \E i \in 1..Len(Store) :
          Store[i].email = out.email /\ ~verify(Store[i].pw_hash, out.pw)

\* C12: when the policy denies the caller, create_account and enter_grade
\* print the denial and do nothing else: the store, the policy file and the
\* backing file are as they were and the store has not even been locked.
C12_DeniedDoesNothing ==
    (out.op \in {"create_account", "enter_grade"} /\ out.auth = "denied")
    => /\ out.events = <<"auth", "print_not_allowed">>
       /\ Store = out.pre
       /\ db_init = out.pre_init
       /\ policy = out.pre_policy
       /\ file = out.pre_file
       /\ running

C12_Witness ==
    /\ out.op = "create_account"
    /\ out.auth = "denied"
    /\ ByUser
    /\ Len(Store) = 1
    /\ file = out.pre_file
    /\ file.state = "json"

\* C13: create_account for a teacher account that the policy grants appends
\* to the policy file one fact, the id of the record it pushed with the role
\* teacher (unless the policy file cannot be opened, which ends the process
\* before the save); for a student account, and in every other operation,
\* the policy file stays as it was.
C13_GroupingFact ==
    IF out.op = "create_account" /\ out.action = TEACHER_ACC
       /\ out.auth = "granted" /\ In("save", out.events)
    THEN /\ Len(Store) = Len(out.pre) + 1
         /\ policy = Append(out.pre_policy,
                            [id |-> Store[Len(Store)].id, role |-> "teacher"])
         /\ \A i \in 1..Len(out.pre) : out.pre[i].id # Store[Len(Store)].id
    ELSE policy = out.pre_policy

C13_Witness ==
    /\ out.op = "create_account"
    /\ out.action = TEACHER_ACC
    /\ ByUser
    /\ Len(policy) = 2
    /\ Len(out.pre_policy) = 1
    /\ policy[2].id = Store[Len(Store)].id

\* C14: create_account that the policy grants leaves the store as it found
\* it with one record more at the end: the email and the name entered, no
\* grades, and an id no record of the store had.
C14_CreateAppends ==
    (out.op = "create_account" /\ out.auth = "granted")
    => /\ Len(Store) = Len(out.pre) + 1
       /\ \A i \in 1..Len(out.pre) : Store[i] = out.pre[i]
       /\ Store[Len(Store)].email = out.email
       /\ Store[Len(Store)].name = out.name
       /\ Store[Len(Store)].grades = <<>>
       /\ \A i \in 1..Len(out.pre) : out.pre[i].id # Store[Len(Store)].id

C14_Witness ==
    /\ out.op = "create_account"
    /\ out.auth = "granted"
    /\ Len(out.pre) = 1
    /\ out.pre[1].grades # <<>>
    /\ Len(Store) = 2
    /\ Store[2].email = out.email

\* What the first use of the store finds in the file f.
Loaded(f) == IF f.state = "json" THEN from_json(f.content) ELSE <<>>

\* C16: an operation that is the first to use the store finds in it the
\* records of the backing file if the file parses and no record if the file
\* is missing or does not parse, and the process goes on; when the creation
\* or the write of the file fails in save_database_to_file the process ends.
C16_LoadAndSaveFailure ==
    /\ (out.op # "none" /\ ~out.pre_init)
       => /\ out.pre = Loaded(out.pre_file)
          /\ (out.op \in {"login", "show_grades"} /\ db_init)
             => (data = Loaded(out.pre_file) /\ running)
    /\ out.io \in {"create_fails", "write_fails"} => ~running
    /\ out.io \in {"ok", "none"} /\ ~In("panic", out.events) => running

C16_Witness ==
    /\ out.op = "show_grades"
    /\ ~out.pre_init
    /\ db_init
    /\ out.pre_file.state = "corrupt"
    /\ data = <<>>
    /\ running

\* The first record of d with the email.
First(d, email) ==
    CHOOSE i \in 1..Len(d) :
        d[i].email = email /\ \A j \in 1..(i - 1) : d[j].email # email

\* C17: reset_password that replaces a hash and enter_grade that appends a
\* grade change the first record with the email (the caller's, the entered
\* one) and no other record, whether or not a later record has that email.
C17_FirstMatchOnly ==
    /\ (out.op = "reset_password" /\ In("set_pw_hash", out.events))
       => LET k == First(out.pre, session[1].email)
          IN  /\ Len(Store) = Len(out.pre)
              /\ \A i \in 1..Len(Store) : i # k => Store[i] = out.pre[i]
              /\ Store[k] = [out.pre[k] EXCEPT !.pw_hash = Store[k].pw_hash]
              /\ verify(Store[k].pw_hash, out.pw)
    /\ (out.op = "enter_grade" /\ In("push_grade", out.events))
       => LET k == First(out.pre, out.email)
          IN  /\ Len(Store) = Len(out.pre)
              /\ \A i \in 1..Len(Store) : i # k => Store[i] = out.pre[i]
              /\ Store[k] =
                     [out.pre[k] EXCEPT
                         !.grades = Append(@, out.typed[Len(out.typed)])]

C17_Witness ==
    /\ out.op = "reset_password"
    /\ In("set_pw_hash", out.events)
    /\ Len(Store) = 2
    /\ Store[1].email = Store[2].email
    /\ session[1].id = Store[2].id
    /\ Store[1].pw_hash # out.pre[1].pw_hash
    /\ Store[2] = out.pre[2]

\* The number of records of d with the email.
WithEmail(d, email) == Cardinality({i \in 1..Len(d) : d[i].email = email})

\* C18: create_account that the policy grants, with an email a record of the
\* store already has, pushes the record all the same: the store has one
\* record more with that email, so two at least.
C18_DuplicateEmail ==
    ( /\ out.op = "create_account"
      /\ out.auth = "granted"
      /\ WithEmail(out.pre, out.email) >= 1 )
    => /\ In("push", out.events)
       /\ ~In("print_not_allowed", out.events)
       /\ WithEmail(Store, out.email) = WithEmail(out.pre, out.email) + 1
       /\ Len(Store) = Len(out.pre) + 1

C18_Witness ==
    /\ out.op = "create_account"
    /\ out.auth = "granted"
    /\ running
    /\ WithEmail(out.pre, out.email) = 1
    /\ WithEmail(Store, out.email) = 2
    /\ WithEmail(OnDisk, out.email) = 2

\* The collection new has the records of old at their places, with the same
\* id, email and name and with grades that begin with the grades of old.
Extends(old, new) ==
    /\ Len(old) <= Len(new)
    /\ \A i \in 1..Len(old) :
           /\ new[i].id = old[i].id
           /\ new[i].email = old[i].email
           /\ new[i].name = old[i].name
           /\ Len(old[i].grades) <= Len(new[i].grades)
           /\ SubSeq(new[i].grades, 1, Len(old[i].grades)) = old[i].grades

\* C19: every step leaves a store that extends the store before it: no
\* record is removed or moved, no id, email or name changes, and grades are
\* only appended.
C19_RecordsKept == [][Extends(Store, Store')]_vars

C19_Witness ==
    /\ out.op = "enter_grade"
    /\ In("push_grade", out.events)
    /\ Len(Store) = 2
    /\ Len(out.pre[1].grades) = 1
    /\ Len(Store[1].grades) = 2
    /\ Extends(out.pre, Store)

----------------------------------------------------------------------------
(* Properties of the two callers (SpecThreads) *)

\* The statements at which a caller is about to use, or is using, the store
\* or the file
StoreSteps ==
    {"login_lock", "login_loop", "ca_lock", "ca_push", "ca_drop", "rp_lock",
     "rp_loop", "eg_lock", "eg_loop", "sg_lock", "sg_loop", "save_create",
     "save_lock", "save_write"}

\* The statements at which a caller holds the guard of the Mutex
Holding ==
    {"login_loop", "ca_push", "ca_drop", "rp_loop", "eg_loop", "sg_loop",
     "save_write"}

\* C11 (as claimed): a caller in create_account, reset_password, enter_grade
\* or show_grades that has come to a statement on the store or the file has
\* the answer of the authorization check.
C11_AuthFirst ==
    \A t \in Threads :
        ( /\ frame[t].op \in {"create_account", "reset_password",
                              "enter_grade", "show_grades"}
          /\ pc[t] \in StoreSteps )
        => frame[t].auth # "none"

\* C11 (amended): in create_account and enter_grade the caller has been
\* granted the action, and in show_grades it has the answer, before any
\* statement on the store or the file; reset_password never asks (no answer
\* at any of its statements) and comes to the store or the file only for a
\* caller other than the super-user.
C11_AuthFirstWhereAsked ==
    \A t \in Threads :
        /\ ( /\ frame[t].op \in {"create_account", "enter_grade"}
             /\ pc[t] \in StoreSteps )
           => frame[t].auth = "granted"
        /\ (frame[t].op = "show_grades" /\ pc[t] \in StoreSteps)
           => frame[t].auth \in {"granted", "denied"}
        /\ frame[t].op = "reset_password"
           => /\ frame[t].auth = "none"
              /\ who[t][1].id # "admin"
        /\ pc[t] \notin StoreSteps => lock # t

C11_Witness ==
    \E t \in Threads, u \in Threads :
        /\ frame[t].op = "enter_grade"
        /\ pc[t] = "eg_loop"
        /\ frame[t].auth = "granted"
        /\ lock = t
        /\ frame[u].op = "reset_password"
        /\ pc[u] = "rp_lock"

\* C15: while a caller is between its change of the store and the end of its
\* write of the file, no other caller changes the store or the file.
C15_NoStepBetween == \A t \in Threads : ~frame[t].touched

\* C20: a caller holds the guard exactly at the statements between a lock
\* and the release that follows it: not when it enters save_database_to_file
\* or waits for the Mutex there, and not when its operation has returned;
\* so the holder of the Mutex can always take its next step and the Mutex is
\* free when no operation is under way.
C20_LockReleased ==
    /\ \A t \in Threads : lock = t <=> pc[t] \in Holding
    /\ \A t \in Threads : pc[t] \in {"save_create", "save_lock"} => lock # t
    /\ \A t \in Threads : pc[t] = "idle" => (lock # t /\ frame[t] = NoFrame)
    /\ (\A t \in Threads : pc[t] = "idle") => lock = Free

C20_Witness ==
    \E t \in Threads, u \in Threads :
        /\ frame[t].op = "create_account"
        /\ pc[t] = "save_lock"
        /\ pc[u] = "save_write"
        /\ frame[u].op = "enter_grade"
        /\ lock = u

====
